---- MODULE Spec2Model ----
(***************************************************************************)
(* Reviewer assignment engine of Scripts/assign_reviewers.py:              *)
(*   _ensure_all_sims_mapping     the similarity normalizer                *)
(*   assign_reviewers_two_rounds  the allocation run (Round 1A coverage,   *)
(*                                Round 1B fairness matcher, Round 2       *)
(*                                completion; the design document calls    *)
(*                                them Round 1, Round 2 and Round 3)       *)
(*                                                                         *)
(* Python values are tagged records.  A score is kept in tenths: the float *)
(* 0.9 is PyFloat(9), the int 1 is PyInt(1) with numeric value 10 tenths.  *)
(* A dict is the sequence of its (key, value) items in insertion order.    *)
(* The i-th proposal record has the id str(i), the j-th member record the  *)
(* id str(j): ids are unique, as the input contract requires.              *)
(***************************************************************************)
EXTENDS Integers, Sequences, FiniteSets, TLC

\* ------------------------------------------------------------ bounds
MaxMembers == 3
MaxProposals == 2
MaxItems == 2

\* ------------------------------------------------------------ Python values
PyNone == [ty |-> "none"]
PyStr(s) == [ty |-> "str", s |-> s]
PyInt(n) == [ty |-> "int", n |-> n]
PyFloat(t) == [ty |-> "float", t |-> t]
PyDict(items) == [ty |-> "dict", items |-> items]
PyList(items) == [ty |-> "list", items |-> items]
EmptyDict == PyDict(<<>>)

IsNumber(x) == x.ty \in {"int", "float"}

\* numeric value of an int or a float, in tenths
Num(x) == IF x.ty = "int" THEN 10 * x.n ELSE x.t

\* bool(x)
Truthy(x) ==
  CASE x.ty = "none" -> FALSE
    [] x.ty = "str" -> x.s # ""
    [] x.ty = "int" -> x.n # 0
    [] x.ty = "float" -> x.t # 0
    [] OTHER -> x.items # <<>>

\* a or b
PyOr(a, b) == IF Truthy(a) THEN a ELSE b

\* float(x), x an int or a float
PyFloatOf(x) == IF x.ty = "int" THEN PyFloat(10 * x.n) ELSE x

\* str(x), x a str or an int
PyStrOf(x) ==
  CASE x.ty = "str" -> x
    [] x.ty = "int" -> PyStr(ToString(x.n))
    [] OTHER -> PyStr("None")

\* position of key k in a dict's items, 0 when absent
DictFind(d, k) ==
  LET hits == {i \in 1..Len(d.items) : d.items[i][1] = k}
  IN IF hits = {} THEN 0 ELSE CHOOSE i \in hits : TRUE

\* k in d
DictHas(d, k) == DictFind(d, k) # 0

\* d.get(k)
DictGet(d, k) == IF DictHas(d, k) THEN d.items[DictFind(d, k)][2] ELSE PyNone

\* d.get(k, default)
DictGetOr(d, k, default) == IF DictHas(d, k) THEN d.items[DictFind(d, k)][2] ELSE default

\* d[k] = v
DictSet(d, k, v) ==
  IF DictHas(d, k)
    THEN PyDict([d.items EXCEPT ![DictFind(d, k)] = <<k, v>>])
    ELSE PyDict(Append(d.items, <<k, v>>))

\* d.setdefault(k, {})
DictSetDefault(d, k) == IF DictHas(d, k) THEN d ELSE DictSet(d, k, EmptyDict)

DictKeys(d) == {d.items[i][1] : i \in 1..Len(d.items)}

\* a == b for two values: numbers by value, dicts by key set and values
RECURSIVE PyEq(_, _)
PyEq(a, b) ==
  IF IsNumber(a) /\ IsNumber(b) THEN Num(a) = Num(b)
  ELSE IF a.ty = "dict" /\ b.ty = "dict"
    THEN /\ DictKeys(a) = DictKeys(b)
         /\ \A k \in DictKeys(a) : PyEq(DictGet(a, k), DictGet(b, k))
  ELSE a = b

\* ------------------------------------------------------------ _ensure_all_sims_mapping
\* Each loop below is a fold; the accumulator of one iteration is bound to its
\* value (acc) before the next update reads it.

\* d.get(k1) or d.get(k2) or ... : the first truthy value, else the last one
RECURSIVE GetChain(_, _)
GetChain(d, keys) ==
  IF Len(keys) = 1 THEN DictGet(d, PyStr(keys[1]))
  ELSE PyOr(DictGet(d, PyStr(keys[1])), GetChain(d, Tail(keys)))

\* float(score or 0)
ScoreOrZero(score) == PyFloatOf(PyOr(score, PyInt(0)))

\* {str(k): float(v) for k, v in val.items()}
CoerceScores(val) ==
  LET F[i \in 0..Len(val.items)] ==
        IF i = 0 THEN EmptyDict
        ELSE CHOOSE out \in {DictSet(acc, PyStrOf(val.items[i][1]), PyFloatOf(val.items[i][2])) :
                                acc \in {F[i - 1]}} : TRUE
  IN F[Len(val.items)]

\* one record of a list of member/score records, added to nested
CoerceRecord(nested, it, midKeys, scoreKeys) ==
  IF it.ty # "dict" THEN nested
  ELSE LET mid == GetChain(it, midKeys)
           score == GetChain(it, scoreKeys)
       IN IF mid # PyNone THEN DictSet(nested, PyStrOf(mid), ScoreOrZero(score))
          ELSE nested

\* the loop over a list of member/score records, starting from nested
CoerceRecords(nested, val, midKeys, scoreKeys) ==
  LET F[i \in 0..Len(val.items)] ==
        IF i = 0 THEN nested
        ELSE CHOOSE out \in {CoerceRecord(acc, val.items[i], midKeys, scoreKeys) :
                                acc \in {F[i - 1]}} : TRUE
  IN F[Len(val.items)]

\* the isinstance(val, dict) branch lost: a nested mapping is taken for an unknown shape
CoerceValueNoDict(val) ==
  IF val.ty = "list"
    THEN CoerceRecords(EmptyDict, val,
                       <<"Member ID", "member_id", "Reviewer ID", "rid", "ID">>,
                       <<"score", "similarity", "value">>)
    ELSE EmptyDict

\* lines 46-59: the value stored for one proposal id of a dict-shaped input
CoerceValue(val) ==
  CASE val.ty = "dict" -> CoerceScores(val)
    [] val.ty = "list" ->
         CoerceRecords(EmptyDict, val,
                       <<"Member ID", "member_id", "Reviewer ID", "rid", "ID">>,
                       <<"score", "similarity", "value">>)
    [] OTHER -> EmptyDict

\* the dict branch
EnsureFromDict(all_sims) ==
  LET F[i \in 0..Len(all_sims.items)] ==
        IF i = 0 THEN EmptyDict
        ELSE CHOOSE out \in {DictSet(acc, PyStrOf(all_sims.items[i][1]),
                                      CoerceValue(all_sims.items[i][2])) :
                                acc \in {F[i - 1]}} : TRUE
  IN F[Len(all_sims.items)]

\* one entry of a list-shaped input, added to out
EnsureEntry(out, entry) ==
  IF entry.ty # "dict" THEN out
  ELSE
    CHOOSE result \in
      {LET hasScores == DictHas(entry, PyStr("Proposal ID")) /\ DictHas(entry, PyStr("scores"))
           scores == DictGet(entry, PyStr("scores"))
       IN IF hasScores /\ scores.ty = "dict"
            THEN DictSet(out, PyStrOf(DictGet(entry, PyStr("Proposal ID"))), CoerceScores(scores))
          ELSE IF pid # PyNone /\ mid # PyNone
            THEN CHOOSE out2 \in
                   {DictSet(out1, PyStrOf(pid),
                            DictSet(DictGet(out1, PyStrOf(pid)), PyStrOf(mid), ScoreOrZero(score))) :
                      out1 \in {DictSetDefault(out, PyStrOf(pid))}} : TRUE
          ELSE IF hasScores /\ scores.ty = "list"
            THEN CHOOSE out2 \in
                   {DictSet(out1, p,
                            CoerceRecords(DictGet(out1, p), scores,
                                          <<"Member ID", "member_id", "ID">>,
                                          <<"score", "similarity">>)) :
                      p \in {PyStrOf(DictGet(entry, PyStr("Proposal ID")))},
                      out1 \in {DictSetDefault(out, PyStrOf(DictGet(entry, PyStr("Proposal ID"))))}} : TRUE
          ELSE out :
         pid \in {GetChain(entry, <<"Proposal ID", "proposal_id", "pid", "ProposalID">>)},
         mid \in {GetChain(entry, <<"Member ID", "member_id", "Reviewer ID", "rid", "ID">>)},
         score \in {GetChain(entry, <<"score", "similarity", "value">>)}} : TRUE

\* the list branch
EnsureFromList(all_sims) ==
  LET F[i \in 0..Len(all_sims.items)] ==
        IF i = 0 THEN EmptyDict
        ELSE CHOOSE out \in {EnsureEntry(acc, all_sims.items[i]) : acc \in {F[i - 1]}} : TRUE
  IN F[Len(all_sims.items)]

\* _ensure_all_sims_mapping(all_sims)
EnsureAllSimsMapping(all_sims) ==
  CASE all_sims.ty = "none" -> EmptyDict
    [] all_sims.ty = "dict" -> EnsureFromDict(all_sims)
    [] all_sims.ty = "list" -> EnsureFromList(all_sims)
    [] OTHER -> EmptyDict

\* canonical form: str proposal id -> str member id -> number
IsCanonical(x) ==
  /\ x.ty = "dict"
  /\ \A i \in 1..Len(x.items) :
       /\ x.items[i][1].ty = "str"
       /\ x.items[i][2].ty = "dict"
       /\ \A j \in 1..Len(x.items[i][2].items) :
            /\ x.items[i][2].items[j][1].ty = "str"
            /\ IsNumber(x.items[i][2].items[j][2])

\* ------------------------------------------------------------ normalizer inputs
SeqsUpTo(S, n) == UNION {[1..k -> S] : k \in 0..n}

\* the dicts of at most n items (distinct keys) over the given keys and values
DictsOver(K, V, n) ==
  {PyDict(s) : s \in {t \in SeqsUpTo(K \X V, n) :
                        \A i, j \in 1..Len(t) : i # j => t[i][1] # t[j][1]}}

\* the dicts of at most two items over the given keys and values
PairDicts(K, V) ==
  {EmptyDict}
    \cup {PyDict(<< <<k, v>> >>) : k \in K, v \in V}
    \cup {PyDict(<< <<k[1], v[1]>>, <<k[2], v[2]>> >>) :
            k \in {kk \in K \X K : kk[1] # kk[2]}, v \in V \X V}

IdKeys == {PyStr("1"), PyStr("2"), PyInt(1)}
ScoreInputs == {PyInt(1), PyFloat(9)}
InnerDicts == DictsOver(IdKeys, ScoreInputs, MaxItems)

\* member/score records, as they appear in record lists
ScoreRecords ==
  {PyDict(<< <<PyStr("Member ID"), m>>, <<PyStr("score"), s>> >>) :
     m \in {PyStr("1"), PyInt(2)}, s \in {PyFloat(9), PyInt(0)}}
    \cup {PyDict(<< <<PyStr("member_id"), PyStr("2")>>, <<PyStr("similarity"), PyFloat(4)>> >>),
          PyDict(<< <<PyStr("ID"), PyStr("1")>> >>),
          PyDict(<< <<PyStr("score"), PyFloat(9)>> >>),
          PyInt(7)}
RecordLists == {PyList(s) : s \in SeqsUpTo(ScoreRecords, MaxItems)}

\* entries of a list-shaped input: row-wise, grouped, nested, unrecognized
ListEntries ==
  {PyDict(<< <<PyStr("Proposal ID"), p>>, <<PyStr("Member ID"), m>>, <<PyStr("score"), s>> >>) :
     p \in {PyStr("1"), PyInt(2)}, m \in {PyStr("1"), PyInt(2)}, s \in {PyFloat(9), PyInt(0)}}
    \cup {PyDict(<< <<PyStr("pid"), PyStr("1")>>, <<PyStr("rid"), PyStr("2")>>,
                    <<PyStr("value"), PyFloat(4)>> >>)}
    \cup {PyDict(<< <<PyStr("Proposal ID"), PyStr("1")>>, <<PyStr("scores"), d>> >>) :
            d \in {EmptyDict,
                   PyDict(<< <<PyInt(1), PyInt(1)>>, <<PyStr("2"), PyFloat(9)>> >>)}}
    \cup {PyDict(<< <<PyStr("Proposal ID"), PyInt(2)>>, <<PyStr("scores"), l>> >>) :
            l \in {PyList(<< PyDict(<< <<PyStr("Member ID"), PyStr("1")>>,
                                       <<PyStr("score"), PyFloat(9)>> >>),
                             PyDict(<< <<PyStr("ID"), PyInt(2)>> >>) >>)}}
    \cup {PyDict(<< <<PyStr("foo"), PyInt(1)>> >>), PyInt(7)}

\* the similarity sources the normalizer is applied to
NormInputs ==
  {PyNone, PyInt(7)}
    \cup PairDicts(IdKeys, InnerDicts)
    \cup {PyDict(<< <<k, v>> >>) : k \in {PyStr("1"), PyInt(2)}, v \in RecordLists \cup {PyInt(7)}}
    \cup {PyList(s) : s \in SeqsUpTo(ListEntries, MaxItems)}

\* ------------------------------------------------------------ state
VARIABLES
  proposals,            \* the proposal records, in input order: their "Association"
  members,              \* the member records, in input order: their "Association"
  all_sims,             \* main(): the similarity source it computed
  sims,                 \* the sims argument of assign_reviewers_two_rounds
  sims_map,             \* the normalized mapping the run reads
  assignments,          \* proposal -> list of members
  reviewer_counts,      \* member -> workload
  sim_scores,           \* proposal -> member -> recorded score
  pc,                   \* position of the run
  r1,                   \* Round 1A: number of (proposal, member) pairs done
  available_proposals,  \* Round 1B: pending "Other" proposals
  need_second,          \* Round 2: pending proposals
  iteration,            \* Round 2: loop counter
  max_iterations,       \* Round 2: loop cap
  round3_entry          \* history: proposal -> number of reviewers when Round 2 began

vars == <<proposals, members, all_sims, sims, sims_map, assignments, reviewer_counts,
          sim_scores, pc, r1, available_proposals, need_second, iteration, max_iterations,
          round3_entry>>

\* ------------------------------------------------------------ allocation inputs
SPECIFIC_ASSOCIATIONS ==
  {"BS", "IAOS", "IASC", "IASE", "IASS", "IFC", "ISBIS", "ISI", "KOSTAT", "TIES", "Women", "Young"}

\* sorted(SPECIFIC_ASSOCIATIONS)
SortedSpecific ==
  <<"BS", "IAOS", "IASC", "IASE", "IASS", "IFC", "ISBIS", "ISI", "KOSTAT", "TIES", "Women", "Young">>

\* the associations the input records carry: one of the fixed set, the literal
\* "Other", and one outside the fixed set that is not "Other"
InputAssociations == {"IASC", "Other", "Misc"}

\* str(p.get("Proposal ID", "")) of the i-th proposal record
ProposalId(i) == PyStr(ToString(i))

\* str(m.get("ID", "")) of the j-th member record
MemberId(j) == PyStr(ToString(j))

\* a canonical mapping: row i holds the scores (tenths) of proposal i for members 1..Len
MkSims(rows) ==
  PyDict([i \in 1..Len(rows) |->
            <<ProposalId(i),
              PyDict([j \in 1..Len(rows[i]) |-> <<MemberId(j), PyFloat(rows[i][j])>>])>>])

\* the similarity sources handed to the run
SimInputs ==
  {PyNone,
   MkSims(<< <<9, 1>>, <<2, 8>> >>),
   MkSims(<< <<5, 5, 5, 5>>, <<5, 5, 5, 5>>, <<5, 5, 5, 5>> >>),
   MkSims(<< <<3, 2, 0, 4>>, <<3, 3, 1>>, <<1, 3, 3, 1>> >>),
   PyDict(<< <<ProposalId(2), PyDict(<< <<MemberId(3), PyInt(1)>>, <<MemberId(2), PyFloat(7)>> >>)>> >>),
   PyList(<< PyDict(<< <<PyStr("Proposal ID"), PyInt(1)>>, <<PyStr("Member ID"), PyInt(2)>>,
                       <<PyStr("score"), PyFloat(6)>> >>),
             PyDict(<< <<PyStr("Proposal ID"), PyInt(1)>>, <<PyStr("Member ID"), PyInt(3)>>,
                       <<PyStr("score"), PyFloat(6)>> >>) >>)}

\* globals().get("all_sims", None): the module defines no global of that name
GlobalAllSims == PyNone

\* ------------------------------------------------------------ partition
\* the ids (positions) of the records with the given association, in input order
IdsWhere(records, assoc) ==
  LET F[i \in 0..Len(records)] ==
        IF i = 0 THEN <<>>
        ELSE IF records[i] = assoc THEN Append(F[i - 1], i) ELSE F[i - 1]
  IN F[Len(records)]

member_by_assoc(assoc) == IdsWhere(members, assoc)
members_with_other == IdsWhere(members, "Other")
proposals_by_assoc(assoc) == IdsWhere(proposals, assoc)
\* "elif assoc == 'Other'" taken for a plain else: every proposal outside the fixed set
ProposalsWithOtherAnyOutside ==
  LET F[i \in 0..Len(proposals)] ==
        IF i = 0 THEN <<>>
        ELSE IF proposals[i] \notin {"BS", "IAOS", "IASC", "IASE", "IASS", "IFC", "ISBIS",
                                     "ISI", "KOSTAT", "TIES", "Women", "Young"}
          THEN Append(F[i - 1], i) ELSE F[i - 1]
  IN F[Len(proposals)]

proposals_with_other == IdsWhere(proposals, "Other")
all_member_ids == [j \in 1..Len(members) |-> j]

\* sims_map.get(pid, {}).get(mid, 0)
SimGet(pid, mid) ==
  CHOOSE sim \in {DictGetOr(row, MemberId(mid), PyInt(0)) :
                    row \in {DictGetOr(sims_map, ProposalId(pid), EmptyDict)}} : TRUE

\* the member inserted at the head of the list
AssignPrepend(pid, mid, sim) ==
  /\ assignments' = [assignments EXCEPT ![pid] = <<mid>> \o @]
  /\ reviewer_counts' = [reviewer_counts EXCEPT ![mid] = @ + 1]
  /\ sim_scores' =
       [p \in DOMAIN sim_scores \cup {pid} |->
          IF p # pid THEN sim_scores[p]
          ELSE LET old == IF pid \in DOMAIN sim_scores THEN sim_scores[pid] ELSE <<>>
               IN [m \in DOMAIN old \cup {mid} |-> IF m = mid THEN sim ELSE old[m]]]

\* the assignment made without counting it
AssignNoCount(pid, mid, sim) ==
  /\ assignments' = [assignments EXCEPT ![pid] = Append(@, mid)]
  /\ reviewer_counts' = reviewer_counts
  /\ sim_scores' =
       [p \in DOMAIN sim_scores \cup {pid} |->
          IF p # pid THEN sim_scores[p]
          ELSE LET old == IF pid \in DOMAIN sim_scores THEN sim_scores[pid] ELSE <<>>
               IN [m \in DOMAIN old \cup {mid} |-> IF m = mid THEN sim ELSE old[m]]]

\* assignments[pid].append(mid); reviewer_counts[mid] += 1; sim_scores[pid][mid] = sim
Assign(pid, mid, sim) ==
  /\ assignments' = [assignments EXCEPT ![pid] = Append(@, mid)]
  /\ reviewer_counts' = [reviewer_counts EXCEPT ![mid] = @ + 1]
  /\ sim_scores' =
       [p \in DOMAIN sim_scores \cup {pid} |->
          IF p # pid THEN sim_scores[p]
          ELSE LET old == IF pid \in DOMAIN sim_scores THEN sim_scores[pid] ELSE <<>>
               IN [m \in DOMAIN old \cup {mid} |-> IF m = mid THEN sim ELSE old[m]]]

\* ------------------------------------------------------------ the run

\* lines 194-254: normalize sims, compute the target, initialize the structures
Start ==
  /\ pc = "start"
  /\ sims_map' = EnsureAllSimsMapping(IF sims # PyNone THEN sims ELSE GlobalAllSims)
  /\ IF Len(members) = 0
       THEN \* total_reviews_needed // total_members raises ZeroDivisionError
            /\ pc' = "raised"
            /\ UNCHANGED <<assignments, reviewer_counts, sim_scores, r1>>
       ELSE /\ assignments' = [p \in 1..Len(proposals) |-> <<>>]
            /\ reviewer_counts' = [m \in 1..Len(members) |-> 0]
            /\ sim_scores' = <<>>
            /\ r1' = 0
            /\ pc' = "round1"
  /\ UNCHANGED <<round3_entry, proposals, members, all_sims, sims, available_proposals, need_second,
                 iteration, max_iterations>>

\* the first n elements of s, all of s when it is shorter
FirstN(s, n) == [i \in 1..(IF Len(s) < n THEN Len(s) ELSE n) |-> s[i]]

\* the inner loop capped at the first two members of the association
AssocPairsCapped(assoc) ==
  LET pids == proposals_by_assoc(assoc)
      assoc_members == FirstN(member_by_assoc(assoc), 2)
  IN [k \in 1..(Len(pids) * Len(assoc_members)) |->
        <<pids[((k - 1) \div Len(assoc_members)) + 1],
          assoc_members[((k - 1) % Len(assoc_members)) + 1]>>]

\* the loop over pids left after the first proposal of the association
AssocPairsFirstProposal(assoc) ==
  LET pids == FirstN(proposals_by_assoc(assoc), 1)
      assoc_members == member_by_assoc(assoc)
  IN [k \in 1..(Len(pids) * Len(assoc_members)) |->
        <<pids[((k - 1) \div Len(assoc_members)) + 1],
          assoc_members[((k - 1) % Len(assoc_members)) + 1]>>]

\* the inner loop visiting the members last to first
AssocPairsReversed(assoc) ==
  LET pids == proposals_by_assoc(assoc)
      assoc_members == member_by_assoc(assoc)
  IN [k \in 1..(Len(pids) * Len(assoc_members)) |->
        <<pids[((k - 1) \div Len(assoc_members)) + 1],
          assoc_members[Len(assoc_members) - ((k - 1) % Len(assoc_members))]>>]

\* lines 269-282: the pairs one association contributes, every member for every proposal
AssocPairs(assoc) ==
  CHOOSE pairs \in
    {[k \in 1..(Len(pids) * Len(assoc_members)) |->
        <<pids[((k - 1) \div Len(assoc_members)) + 1],
          assoc_members[((k - 1) % Len(assoc_members)) + 1]>>] :
       pids \in {proposals_by_assoc(assoc)},
       assoc_members \in {member_by_assoc(assoc)}} : TRUE

\* the outer loop run over every association of the input, sorted
Round1PairsEveryAssoc ==
  AssocPairs("IASC") \o AssocPairs("Misc") \o AssocPairs("Other")

\* lines 265-282: the (pid, rid) pairs of the Round 1A loops, in the order visited
Round1Pairs ==
  LET F[a \in 0..Len(SortedSpecific)] ==
        IF a = 0 THEN <<>> ELSE F[a - 1] \o AssocPairs(SortedSpecific[a])
  IN F[Len(SortedSpecific)]

\* lines 279-285: one iteration of the inner loop of Round 1A
Round1Step ==
  /\ pc = "round1"
  /\ r1 < Len(Round1Pairs)
  /\ \E pair \in {Round1Pairs[r1 + 1]} :
       Assign(pair[1], pair[2], SimGet(pair[1], pair[2]))
  /\ r1' = r1 + 1
  /\ UNCHANGED <<round3_entry, proposals, members, all_sims, sims, sims_map, pc, available_proposals,
                 need_second, iteration, max_iterations>>

\* lines 302-303: entering Round 1B
Round2Begin ==
  /\ pc = "round1"
  /\ r1 = Len(Round1Pairs)
  /\ available_proposals' =
       IF proposals_with_other # <<>> /\ members_with_other # <<>>
         THEN {proposals_with_other[i] : i \in
                 {k \in 1..Len(proposals_with_other) :
                    Len(assignments[proposals_with_other[k]]) = 0}}
         ELSE {}
  /\ pc' = "round2"
  /\ UNCHANGED <<round3_entry, proposals, members, all_sims, sims, sims_map, assignments, reviewer_counts,
                 sim_scores, r1, need_second, iteration, max_iterations>>

\* the workload penalty lost
FairnessScoreNoPenalty(sim, count) == Num(sim)

\* line 317: sim - (count * 0.1), in tenths
FairnessScore(sim, count) == Num(sim) - count

\* the orders in which a set can be iterated
Orders(S) ==
  {o \in [1..Cardinality(S) -> S] : \A i, j \in 1..Cardinality(S) : i # j => o[i] # o[j]}

NoPair == <<>>

\* the candidates carrying the fairness score where the similarity belongs
CandidatesFairnessAsSim(order) ==
  LET mo == members_with_other
  IN [k \in 1..(Len(order) * Len(mo)) |->
        LET pid == order[((k - 1) \div Len(mo)) + 1]
            mid == mo[((k - 1) % Len(mo)) + 1]
        IN <<pid, mid, PyFloat(Num(SimGet(pid, mid)) - reviewer_counts[mid]),
             Num(SimGet(pid, mid)) - reviewer_counts[mid]>>]

\* lines 312-320: the candidates of the nested loops, in the order they are visited
Candidates(order) ==
  CHOOSE cands \in
    {[k \in 1..(Len(order) * Len(mo)) |->
        CHOOSE cand \in
          {<<pid, mid, SimGet(pid, mid), FairnessScore(SimGet(pid, mid), reviewer_counts[mid])>> :
             pid \in {order[((k - 1) \div Len(mo)) + 1]},
             mid \in {mo[((k - 1) % Len(mo)) + 1]}} : TRUE] :
       mo \in {members_with_other}} : TRUE

\* line 319: a candidate replaces best_pair when its fairness score is strictly greater
RECURSIVE BestFrom(_, _, _)
BestFrom(cands, k, best_pair) ==
  IF k > Len(cands) THEN best_pair
  ELSE CHOOSE last \in
         {BestFrom(cands, k + 1, b) :
            b \in {IF best_pair = NoPair \/ cands[k][4] > best_pair[4]
                     THEN cands[k] ELSE best_pair}} : TRUE

\* lines 310-320: the best (pid, mid, sim, fairness_score), the proposals visited in order
BestPair(order) ==
  CHOOSE best_pair \in {BestFrom(cands, 1, NoPair) : cands \in {Candidates(order)}} : TRUE

\* lines 307-329: one iteration of the Round 1B loop
Round2Step ==
  /\ pc = "round2"
  /\ available_proposals # {}
  /\ \E order \in Orders(available_proposals) :
     \E best_pair \in {BestPair(order)} :
          IF best_pair = NoPair
            THEN /\ pc' = "break2"
                 /\ UNCHANGED <<assignments, reviewer_counts, sim_scores, available_proposals>>
            ELSE /\ Assign(best_pair[1], best_pair[2], best_pair[3])
                 /\ available_proposals' = available_proposals \ {best_pair[1]}
                 /\ pc' = pc
  /\ UNCHANGED <<round3_entry, proposals, members, all_sims, sims, sims_map, r1, need_second, iteration,
                 max_iterations>>

\* the cap doubled
MaxIterationsDoubled(pending) == 2 * Len(pending) * Len(all_member_ids)

\* the cap computed from the pending proposals alone
MaxIterationsNoMembers(pending) == Len(pending)

\* line 366: max_iterations
MaxIterations(pending) == Len(pending) * Len(all_member_ids)

\* the sort lost: pending proposals stay in input order
SortByCountUnsorted(pids) == pids

\* need_second.sort(key=len(assignments[pid])): stable, and every length is 0 or 1
SortByCount(pids) ==
  LET Has0(p) == Len(assignments[p]) = 0
      Has1(p) == Len(assignments[p]) = 1
  IN SelectSeq(pids, Has0) \o SelectSeq(pids, Has1)

\* only the proposals without any reviewer taken as pending
NeedSecondUnassigned ==
  LET Unassigned(p) == Len(assignments[p]) = 0
  IN SelectSeq([p \in 1..Len(proposals) |-> p], Unassigned)

\* line 355: need_second, before it is sorted
NeedSecond ==
  LET Under2(p) == Len(assignments[p]) < 2
  IN SelectSeq([p \in 1..Len(proposals) |-> p], Under2)

\* lines 355-366: entering Round 2
Round3Begin ==
  /\ pc \in {"round2", "break2"}
  /\ pc = "round2" => available_proposals = {}
  /\ LET pending == SortByCount(NeedSecond)
     IN /\ need_second' = pending
        /\ max_iterations' = MaxIterations(pending)
  /\ iteration' = 0
  /\ round3_entry' = [p \in 1..Len(proposals) |-> Len(assignments[p])]
  /\ pc' = "round3"
  /\ UNCHANGED <<proposals, members, all_sims, sims, sims_map, assignments, reviewer_counts,
                 sim_scores, r1, available_proposals>>

\* the filter "mid not in assignments[pid]" lost
EligibleAll(pid) ==
  [k \in 1..Len(all_member_ids) |->
     <<all_member_ids[k], reviewer_counts[all_member_ids[k]], SimGet(pid, all_member_ids[k])>>]

\* lines 374-376: (mid, count, sim) of the members not yet assigned to pid
Eligible(pid) ==
  LET NotAssigned(mid) == \A k \in 1..Len(assignments[pid]) : assignments[pid][k] # mid
  IN CHOOSE eligible \in
       {[k \in 1..Len(ids) |-> <<ids[k], reviewer_counts[ids[k]], SimGet(pid, ids[k])>>] :
          ids \in {SelectSeq(all_member_ids, NotAssigned)}} : TRUE

\* the sort key reduced to the count
KeyBeforeCountOnly(a, b) == a[2] < b[2]

\* the sort key with the similarity first and the count second
KeyBeforeSimFirst(a, b) == Num(a[3]) > Num(b[3]) \/ (Num(a[3]) = Num(b[3]) /\ a[2] < b[2])

\* the sort key (x[1], -x[2]) of a sorts before that of b
KeyBefore(a, b) == a[2] < b[2] \/ (a[2] = b[2] /\ Num(a[3]) > Num(b[3]))

\* the sort lost: the last eligible member in input order
LastEligible(eligible) == eligible[Len(eligible)]

\* lines 384-386: eligible.sort(...) is stable; its first element
FirstEligible(eligible) ==
  LET firsts == {i \in 1..Len(eligible) :
                   /\ \A j \in 1..Len(eligible) : ~KeyBefore(eligible[j], eligible[i])
                   /\ \A j \in 1..(i - 1) : KeyBefore(eligible[j], eligible[i])
                                            \/ KeyBefore(eligible[i], eligible[j])}
  IN eligible[CHOOSE i \in firsts : TRUE]

\* lines 368-399: one iteration of the Round 2 loop
Round3Step ==
  /\ pc = "round3"
  /\ need_second # <<>>
  /\ iteration < max_iterations
  /\ iteration' = iteration + 1
  /\ LET pid == need_second[1]
     IN \E eligible \in {Eligible(pid)} :
          IF eligible = <<>>
            THEN /\ need_second' = Tail(need_second)
                 /\ UNCHANGED <<assignments, reviewer_counts, sim_scores>>
            ELSE \E best \in {FirstEligible(eligible)} :
                   /\ Assign(pid, best[1], best[3])
                   /\ need_second' = IF Len(assignments[pid]) + 1 >= 2
                                       THEN Tail(need_second) ELSE need_second
  /\ UNCHANGED <<round3_entry, proposals, members, all_sims, sims, sims_map, pc, r1, available_proposals,
                 max_iterations>>

\* lines 401-435: the loop is over; report and return
Finish ==
  /\ pc = "round3"
  /\ ~(need_second # <<>> /\ iteration < max_iterations)
  /\ pc' = "done"
  /\ UNCHANGED <<round3_entry, proposals, members, all_sims, sims, sims_map, assignments, reviewer_counts,
                 sim_scores, r1, available_proposals, need_second, iteration, max_iterations>>

Init ==
  /\ proposals \in SeqsUpTo(InputAssociations, MaxProposals)
  /\ members \in SeqsUpTo(InputAssociations, MaxMembers)
  /\ sims \in SimInputs
  /\ all_sims = PyNone
  /\ sims_map = EmptyDict
  /\ assignments = <<>>
  /\ reviewer_counts = <<>>
  /\ sim_scores = <<>>
  /\ pc = "start"
  /\ r1 = 0
  /\ available_proposals = {}
  /\ need_second = <<>>
  /\ iteration = 0
  /\ max_iterations = 0
  /\ round3_entry = <<>>

Next ==
  \/ Start
  \/ Round1Step
  \/ Round2Begin
  \/ Round2Step
  \/ Round3Begin
  \/ Round3Step
  \/ Finish

Spec == Init /\ [][Next]_vars

\* the run is one sequential call: it keeps taking steps until it returns or raises
FairSpec == Spec /\ WF_vars(Next)

\* ------------------------------------------------------------ main(): the two normalizations

\* lines 496-497 and 500: norm_sims = _ensure_all_sims_mapping(all_sims), passed as sims
MainNormalize ==
  /\ pc = "main"
  /\ sims' = EnsureAllSimsMapping(all_sims)
  /\ pc' = "call"
  /\ UNCHANGED <<round3_entry, proposals, members, all_sims, sims_map, assignments, reviewer_counts,
                 sim_scores, r1, available_proposals, need_second, iteration, max_iterations>>

\* line 194: the run normalizes its argument again
RunNormalize ==
  /\ pc = "call"
  /\ sims_map' = EnsureAllSimsMapping(IF sims # PyNone THEN sims ELSE GlobalAllSims)
  /\ pc' = "normalized"
  /\ UNCHANGED <<round3_entry, proposals, members, all_sims, sims, assignments, reviewer_counts,
                 sim_scores, r1, available_proposals, need_second, iteration, max_iterations>>

InitNorm ==
  /\ all_sims \in NormInputs
  /\ sims = PyNone
  /\ sims_map = EmptyDict
  /\ proposals = <<>>
  /\ members = <<>>
  /\ assignments = <<>>
  /\ reviewer_counts = <<>>
  /\ sim_scores = <<>>
  /\ pc = "main"
  /\ r1 = 0
  /\ available_proposals = {}
  /\ need_second = <<>>
  /\ iteration = 0
  /\ max_iterations = 0
  /\ round3_entry = <<>>

NextNorm ==
  \/ MainNormalize
  \/ RunNormalize

SpecNorm == InitNorm /\ [][NextNorm]_vars

\* ------------------------------------------------------------ properties
Range(s) == {s[i] : i \in 1..Len(s)}
MembersOf(assoc) == {m \in 1..Len(members) : members[m] = assoc}
ProposalsOf(assoc) == {p \in 1..Len(proposals) : proposals[p] = assoc}

SumOf(s) ==
  LET F[i \in 0..Len(s)] == IF i = 0 THEN 0 ELSE F[i - 1] + s[i]
  IN F[Len(s)]

\* the score the similarity mapping holds for (p, m), 0 when it holds none
MappingScore(p, m) ==
  LET rows == {i \in 1..Len(sims_map.items) : sims_map.items[i][1] = ProposalId(p)}
  IN IF rows = {} THEN PyInt(0)
     ELSE LET row == sims_map.items[CHOOSE i \in rows : TRUE][2]
              cells == {j \in 1..Len(row.items) : row.items[j][1] = MemberId(m)}
          IN IF cells = {} THEN PyInt(0) ELSE row.items[CHOOSE j \in cells : TRUE][2]

\* a category of the fixed set has proposals but no members, or there are
\* "Other" proposals and no "Other" members
StructuralShortage ==
  \/ \E a \in SPECIFIC_ASSOCIATIONS : ProposalsOf(a) # {} /\ MembersOf(a) = {}
  \/ ProposalsOf("Other") # {} /\ MembersOf("Other") = {}

\* the proposal is in a category of the fixed set that has at least one member
Covered(p) == proposals[p] \in SPECIFIC_ASSOCIATIONS /\ MembersOf(proposals[p]) # {}

\* C1: when the run returns, every member of a category of the fixed set is in
\* the assignment list of every proposal of that category.
C1_FullCrossCoverage ==
  pc = "done" =>
    \A a \in SPECIFIC_ASSOCIATIONS :
      \A p \in ProposalsOf(a) : MembersOf(a) \subseteq Range(assignments[p])

C1_Witness ==
  /\ pc = "done"
  /\ \E a \in SPECIFIC_ASSOCIATIONS :
       /\ Cardinality(MembersOf(a)) = 2
       /\ Cardinality(ProposalsOf(a)) = 2
       /\ Len(members) = 3

\* C2: when the run returns, every proposal outside the categories of the fixed
\* set that have members has exactly 2 reviewers, unless there are fewer than 2
\* members or a structural shortage exists.
C2_ExactlyTwo ==
  pc = "done" =>
    \/ Len(members) < 2
    \/ StructuralShortage
    \/ \A p \in 1..Len(proposals) : ~Covered(p) => Len(assignments[p]) = 2

C2_Witness ==
  /\ pc = "done"
  /\ Len(members) >= 2
  /\ ~StructuralShortage
  /\ ProposalsOf("Other") # {}
  /\ ProposalsOf("Misc") # {}

\* C3: in every state of a run no assignment list holds the same member twice.
C3_NoDuplicate ==
  \A p \in DOMAIN assignments :
    \A i, j \in 1..Len(assignments[p]) : i # j => assignments[p][i] # assignments[p][j]

C3_Witness ==
  /\ pc = "done"
  /\ r1 > 0
  /\ iteration > 0
  /\ \E p \in ProposalsOf("Other") :
       /\ Len(assignments[p]) = 2
       /\ assignments[p][1] \in MembersOf("Other")

\* C4: no input is fatal: the run never raises, and what it returns has an
\* entry for every proposal.
C4_NeverFatal ==
  /\ pc # "raised"
  /\ pc = "done" => DOMAIN assignments = 1..Len(proposals)

\* C5: in every state of a run the workload counters add up to the number of
\* (proposal, member) entries of the assignment lists.
C5_WorkloadSum ==
  SumOf(reviewer_counts) = SumOf([p \in 1..Len(assignments) |-> Len(assignments[p])])

C5_Witness ==
  /\ pc = "round3"
  /\ iteration > 0
  /\ r1 > 0
  /\ SumOf(reviewer_counts) >= 4

C7_MemberInputOrder ==
  pc = "done" =>
    /\ \A p \in 1..Len(proposals) :
         Covered(p) =>
           LET k == Cardinality(MembersOf(proposals[p]))
           IN /\ Len(assignments[p]) >= k
              /\ \A i \in 1..k : members[assignments[p][i]] = proposals[p]
              /\ \A i, j \in 1..k : i < j => assignments[p][i] < assignments[p][j]
    /\ \A a \in SPECIFIC_ASSOCIATIONS :
         (Len(members) = 2 /\ MembersOf(a) = {1, 2} /\ ProposalsOf(a) = 1..Len(proposals)) =>
           /\ \A p \in 1..Len(proposals) : assignments[p] = <<1, 2>>
           /\ \A m \in 1..2 : reviewer_counts[m] = Len(proposals)

C7_Witness ==
  /\ pc = "done"
  /\ members = <<"IASC", "IASC">>
  /\ proposals = <<"IASC", "IASC">>
  /\ reviewer_counts = <<2, 2>>

\* C8: when the run returns, the recorded scores have an entry for (proposal,
\* member) exactly when the member is in the proposal's list, and the entry is
\* the score of the similarity mapping for the pair, 0 when it has none.
C8_ScoresRecorded ==
  pc = "done" =>
    /\ DOMAIN sim_scores \subseteq 1..Len(proposals)
    /\ \A p \in DOMAIN sim_scores : DOMAIN sim_scores[p] \subseteq 1..Len(members)
    /\ \A p \in 1..Len(proposals) : \A m \in 1..Len(members) :
         LET has == p \in DOMAIN sim_scores /\ m \in DOMAIN sim_scores[p]
         IN /\ has <=> m \in Range(assignments[p])
            /\ has => PyEq(sim_scores[p][m], MappingScore(p, m))

C8_Witness ==
  /\ pc = "done"
  /\ r1 > 0
  /\ \E p \in ProposalsOf("Other") : \E m \in MembersOf("Other") :
       /\ assignments[p][1] = m
       /\ Num(sim_scores[p][m]) > 0
       /\ reviewer_counts[m] > 1
  /\ \E p \in 1..Len(proposals) : \E m \in Range(assignments[p]) :
       sim_scores[p][m] = PyInt(0)

\* C9: the normalizer returns a mapping equal to a canonical input, and
\* normalizing the result of a normalization returns an equal result.
C9_NormalizerIdempotent ==
  /\ (pc \in {"call", "normalized"} /\ IsCanonical(all_sims)) => PyEq(sims, all_sims)
  /\ pc = "normalized" => PyEq(sims_map, sims)

C9_Witness ==
  /\ pc = "normalized"
  /\ IsCanonical(all_sims)
  /\ Len(all_sims.items) = 2
  /\ \E i \in 1..2 : \E j \in 1..Len(all_sims.items[i][2].items) :
       all_sims.items[i][2].items[j][2].ty = "int"

\* the inputs of the Round 2 scenario: two "Other" proposals, two "Other"
\* members, similarities 0.9, 0.1 / 0.2, 0.8
Round2Scenario ==
  /\ proposals = <<"Other", "Other">>
  /\ members = <<"Other", "Other">>
  /\ sims = MkSims(<< <<9, 1>>, <<2, 8>> >>)

\* similarity - 0.1 x workload of the pair, in tenths, at the current state
FairnessOf(p, m) == Num(MappingScore(p, m)) - reviewer_counts[m]

C10_Step ==
  (pc = "round2" /\ assignments' # assignments) =>
    /\ \E p \in available_proposals : \E m \in MembersOf("Other") :
         /\ assignments' = [assignments EXCEPT ![p] = Append(@, m)]
         /\ \A p2 \in available_proposals : \A m2 \in MembersOf("Other") :
              FairnessOf(p2, m2) <= FairnessOf(p, m)
    /\ (Round2Scenario /\ assignments = << <<>>, <<>> >>) => assignments' = << <<1>>, <<>> >>
    /\ (Round2Scenario /\ assignments = << <<1>>, <<>> >>) => assignments' = << <<1>>, <<2>> >>

\* C10: every Round 2 step assigns a pair of a pending "Other" proposal and an
\* "Other" member that maximizes similarity - 0.1 x current workload; in the
\* scenario it assigns proposal 1 to member 1 and then proposal 2 to member 2.
C10_Round2Maximizes == [][C10_Step]_vars

C10_Witness ==
  /\ pc = "round2"
  /\ Round2Scenario
  /\ assignments = << <<1>>, <<2>> >>
  /\ available_proposals = {}

\* the proposal's category is neither in the fixed set nor "Other"
Unclassified(p) == proposals[p] \notin SPECIFIC_ASSOCIATIONS \cup {"Other"}

\* C11: at the end of Round 2 every "Other" proposal has exactly one reviewer,
\* an "Other" member, when there is an "Other" member, and none otherwise; the
\* other proposals hold what Round 1 gave them.
C11_EndOfRound2 ==
  (pc = "round2" /\ available_proposals = {}) =>
    \A p \in 1..Len(proposals) :
      IF proposals[p] = "Other"
        THEN IF MembersOf("Other") # {}
               THEN /\ Len(assignments[p]) = 1
                    /\ assignments[p][1] \in MembersOf("Other")
               ELSE assignments[p] = <<>>
        ELSE Len(assignments[p]) =
               IF Covered(p) THEN Cardinality(MembersOf(proposals[p])) ELSE 0

C11_Witness ==
  /\ pc = "round2"
  /\ available_proposals = {}
  /\ ProposalsOf("Misc") # {}
  /\ MembersOf("Misc") # {}
  /\ \E p \in ProposalsOf("Other") : Len(assignments[p]) = 1

\* C12: a proposal whose category is outside the fixed set and not "Other" has
\* no reviewer until Round 3 begins: all its reviewers come from Round 3.
C12_UnclassifiedOnlyRound3 ==
  \A p \in 1..Len(proposals) :
    Unclassified(p) =>
      /\ pc \in {"round1", "round2", "break2"} => assignments[p] = <<>>
      /\ pc \in {"round3", "done"} => round3_entry[p] = 0

C12_Witness ==
  /\ pc = "done"
  /\ r1 > 0
  /\ MembersOf("Misc") # {}
  /\ \E p \in 1..Len(proposals) : Unclassified(p) /\ Len(assignments[p]) = 2

C13_Step ==
  (pc = "round3" /\ assignments' # assignments) =>
    LET pid == need_second[1]
        free == (1..Len(members)) \ Range(assignments[pid])
    IN \E m \in free :
         /\ assignments' = [assignments EXCEPT ![pid] = Append(@, m)]
         /\ \A m2 \in free :
              \/ reviewer_counts[m] < reviewer_counts[m2]
              \/ /\ reviewer_counts[m] = reviewer_counts[m2]
                 /\ \/ Num(MappingScore(pid, m)) > Num(MappingScore(pid, m2))
                    \/ /\ Num(MappingScore(pid, m)) = Num(MappingScore(pid, m2))
                       /\ m <= m2

\* C13: every Round 3 step gives the proposal a member not yet in its list
\* with the least workload, among those one with the highest similarity
\* (0 when the mapping has none), among those the earliest in input order.
C13_Round3Choice == [][C13_Step]_vars

C13_Witness ==
  /\ pc = "done"
  /\ Len(members) = 3
  /\ \E p \in 1..Len(proposals) :
       /\ round3_entry[p] = 0
       /\ assignments[p] = <<2, 3>>

\* need_second is in the order of Round 3: fewer reviewers at the start first,
\* input order among equals, and only its head has been given anything
C14_Order ==
  pc = "round3" =>
    \A i, j \in 1..Len(need_second) :
      i < j =>
        /\ \/ round3_entry[need_second[i]] < round3_entry[need_second[j]]
           \/ /\ round3_entry[need_second[i]] = round3_entry[need_second[j]]
              /\ need_second[i] < need_second[j]
        /\ Len(assignments[need_second[j]]) = round3_entry[need_second[j]]

C14_Step ==
  (pc = "round3" /\ assignments' # assignments) =>
    \A p \in 1..Len(proposals) :
      (assignments'[p] # assignments[p] /\ round3_entry[p] = 1) =>
        \A q \in Range(need_second) : round3_entry[q] # 0

\* C14: Round 3 takes the pending proposals fewest reviewers first, input order
\* among equals, one after the other: a proposal that entered with 1 reviewer
\* receives none while one that entered with 0 is still pending.
C14_FewestFirst == [](C14_Order) /\ [][C14_Step]_vars

C14_Witness ==
  /\ pc = "done"
  /\ \E p, q \in 1..Len(proposals) :
       /\ p < q
       /\ round3_entry[p] = 1
       /\ round3_entry[q] = 0
       /\ Len(assignments[p]) = 2
       /\ Len(assignments[q]) = 2

\* C15: when the run returns, a proposal with fewer than 2 reviewers has every
\* member of the pool in its list.
C15_AssignUntilExhausted ==
  pc = "done" =>
    \A p \in 1..Len(proposals) :
      Len(assignments[p]) < 2 => Range(assignments[p]) = 1..Len(members)

\* the number of proposals pending when Round 3 began
PendingAtEntry == Cardinality({p \in DOMAIN round3_entry : round3_entry[p] < 2})

C16_Step ==
  /\ (pc = "round2" /\ pc' = "round2") =>
       Cardinality(available_proposals') = Cardinality(available_proposals) - 1
  /\ (pc = "round3" /\ pc' = "round3") =>
       /\ iteration' = iteration + 1
       /\ iteration' <= PendingAtEntry * Len(members)

\* C16: with at least one member the run terminates: every Round 2 iteration
\* removes one pending proposal, and Round 3 makes at most (proposals pending
\* at its start) x (members) iterations.
C16_Terminates ==
  /\ [][C16_Step]_vars
  /\ (Len(members) >= 1) => <>(pc = "done")

C16_Witness ==
  /\ pc = "done"
  /\ iteration = max_iterations
  /\ need_second # <<>>
  /\ r1 > 0

C17_Step ==
  /\ \A p \in DOMAIN assignments :
       /\ Len(assignments'[p]) >= Len(assignments[p])
       /\ SubSeq(assignments'[p], 1, Len(assignments[p])) = assignments[p]
  /\ \A m \in DOMAIN reviewer_counts : reviewer_counts'[m] >= reviewer_counts[m]
  /\ Cardinality({p \in DOMAIN assignments : assignments'[p] # assignments[p]}) <= 1
  /\ Cardinality({m \in DOMAIN reviewer_counts : reviewer_counts'[m] # reviewer_counts[m]}) <= 1
  /\ pc = "round3" =>
       \A p \in 1..Len(proposals) : round3_entry[p] >= 2 => assignments'[p] = assignments[p]

\* C17: every step keeps each assignment list as a prefix of the new one,
\* lowers no workload counter, changes at most one list and one counter, and
\* Round 3 leaves alone the proposals that had 2 or more reviewers at its start.
C17_AppendOnly == [][C17_Step]_vars

C17_Witness ==
  /\ pc = "done"
  /\ iteration > 0
  /\ \E p \in 1..Len(proposals) : round3_entry[p] >= 2
  /\ \E p \in 1..Len(proposals) : round3_entry[p] < Len(assignments[p])

\* C18: when a category of the fixed set has proposals but no members, the run
\* does not abort, Rounds 1 and 2 give those proposals nothing, and they enter
\* Round 3 with no reviewer.
C18_ShortageCarriedForward ==
  \A a \in SPECIFIC_ASSOCIATIONS :
    (ProposalsOf(a) # {} /\ MembersOf(a) = {}) =>
      /\ pc # "raised"
      /\ \A p \in ProposalsOf(a) :
           /\ pc \in {"round1", "round2", "break2"} => assignments[p] = <<>>
           /\ pc \in {"round3", "done"} => round3_entry[p] = 0

\* C19: with at least 2 members the cap never stops Round 3 while a proposal is
\* pending, and the run returns with nothing pending and at least 2 reviewers
\* on every proposal.
C19_AllReachTwo ==
  Len(members) >= 2 =>
    /\ (pc = "round3" /\ need_second # <<>>) => iteration < max_iterations
    /\ pc = "done" =>
         /\ need_second = <<>>
         /\ \A p \in 1..Len(proposals) : Len(assignments[p]) >= 2

C19_Witness ==
  /\ pc = "done"
  /\ Len(members) >= 2
  /\ \E a \in SPECIFIC_ASSOCIATIONS : ProposalsOf(a) # {} /\ MembersOf(a) = {}
  /\ ProposalsOf("Other") # {}
  /\ MembersOf("Other") = {}

\* the workload counters differ by at most 1
Balanced ==
  \A m, m2 \in 1..Len(members) : reviewer_counts[m] - reviewer_counts[m2] <= 1

\* C20: when no proposal is in the fixed set or "Other" and there are at least
\* 2 members, the workloads differ by at most 1 after every completed proposal
\* of Round 3, and at the end they are base or base + 1, base = (2P) div M,
\* with (2P) mod M members at base + 1.
C20_BalancedWorkload ==
  (Len(members) >= 2 /\ \A p \in 1..Len(proposals) : Unclassified(p)) =>
    /\ (pc \in {"round3", "done"} /\ \A p \in 1..Len(proposals) : Len(assignments[p]) # 1)
         => Balanced
    /\ pc = "done" =>
         LET base == (2 * Len(proposals)) \div Len(members)
         IN /\ \A m \in 1..Len(members) : reviewer_counts[m] \in {base, base + 1}
            /\ Cardinality({m \in 1..Len(members) : reviewer_counts[m] = base + 1})
                 = (2 * Len(proposals)) % Len(members)

C20_Witness ==
  /\ pc = "done"
  /\ Len(members) = 3
  /\ Len(proposals) = 2
  /\ \A p \in 1..Len(proposals) : Unclassified(p)
  /\ sims = MkSims(<< <<9, 1>>, <<2, 8>> >>)

\* the proposal's category is in the fixed set and has exactly one member
SingleMemberCategory(p) ==
  /\ proposals[p] \in SPECIFIC_ASSOCIATIONS
  /\ Cardinality(MembersOf(proposals[p])) = 1

C21_Final ==
  (pc = "done" /\ Len(members) >= 2) =>
    \A p \in 1..Len(proposals) :
      SingleMemberCategory(p) =>
        /\ Len(assignments[p]) = 2
        /\ round3_entry[p] = 1
        /\ assignments[p][1] \in MembersOf(proposals[p])
        /\ assignments[p][2] \notin MembersOf(proposals[p])

C21_Step ==
  (pc = "round3" /\ Len(members) >= 2) =>
    \A p \in 1..Len(proposals) :
      (SingleMemberCategory(p) /\ assignments'[p] # assignments[p]) =>
        \E m \in (1..Len(members)) \ MembersOf(proposals[p]) :
          /\ assignments'[p] = Append(assignments[p], m)
          /\ \A m2 \in (1..Len(members)) \ Range(assignments[p]) :
               reviewer_counts[m] <= reviewer_counts[m2]

\* C21: with at least 2 members, a proposal of a fixed-set category that has
\* exactly one member ends with exactly 2 reviewers: first the member of its
\* category, from Round 1, then a member outside the category that had the
\* least workload among the eligible members when Round 3 chose it.
C21_SingleMemberCategory == [](C21_Final) /\ [][C21_Step]_vars

C21_Witness ==
  /\ pc = "done"
  /\ Len(members) = 3
  /\ sims = PyNone
  /\ \E p \in 1..Len(proposals) :
       /\ SingleMemberCategory(p)
       /\ Len(assignments[p]) = 2
       /\ \E m \in 1..Len(members) :
            /\ m \notin Range(assignments[p])
            /\ m < assignments[p][2]

\* the elements of a set of ids in ascending order: one of the orders in which
\* list(available_proposals) can visit the set
Ascending(S) ==
  [i \in 1..Cardinality(S) |-> CHOOSE x \in S : Cardinality({y \in S : y < x}) = i - 1]

\* lines 312-320 for the given visiting order and workload counters
CandidatesAt(order, counts) ==
  LET mo == members_with_other
  IN [k \in 1..(Len(order) * Len(mo)) |->
        LET pid == order[((k - 1) \div Len(mo)) + 1]
            mid == mo[((k - 1) % Len(mo)) + 1]
        IN <<pid, mid, SimGet(pid, mid), FairnessScore(SimGet(pid, mid), counts[mid])>>]

\* lines 307-329 run to the end with the pending set always visited in
\* ascending order: the member each pending proposal receives
RECURSIVE InOrderRound2(_, _, _)
InOrderRound2(pending, counts, first) ==
  IF pending = {} THEN first
  ELSE LET best_pair == BestFrom(CandidatesAt(Ascending(pending), counts), 1, NoPair)
       IN InOrderRound2(pending \ {best_pair[1]},
                        [counts EXCEPT ![best_pair[2]] = @ + 1],
                        [first EXCEPT ![best_pair[1]] = best_pair[2]])

\* the workload of member m when Round 2 begins: its pairs of Round 1
CountAfterRound1(m) == Cardinality({k \in 1..Len(Round1Pairs) : Round1Pairs[k][2] = m})

\* C22: the lists returned do not depend on the order in which Round 2 visits
\* the pending "Other" proposals: every run gives each of them, as its first
\* reviewer, the member that the run visiting them in ascending order gives it.
\* (Rounds 1 and 3 make no choice, so the returned lists are the same exactly
\* when these first reviewers are.)
C22_OrderIndependent ==
  (pc = "done" /\ ProposalsOf("Other") # {} /\ MembersOf("Other") # {}) =>
    LET first == InOrderRound2(ProposalsOf("Other"),
                               [m \in 1..Len(members) |-> CountAfterRound1(m)],
                               [p \in 1..Len(proposals) |-> 0])
    IN \A p \in ProposalsOf("Other") : assignments[p][1] = first[p]

====
